---- MODULE Spec2Model ----
(***************************************************************************)
(* Model of the wafer-metrology table transforms of AI-ETCH:               *)
(*   src/area.py    split_zone_data_x                                      *)
(*   src/rename.py  ColumnRenameMapper (process, _rename_columns_polishAC, *)
(*                  _rename_columns_polishBD, _cal_thk_from_raw_value)     *)
(*                                                                         *)
(* Python strings are sequences of one-character strings, so that the      *)
(* regular expressions and substring tests of the code are computed and    *)
(* not assumed.  A table (pandas DataFrame) is a record                    *)
(*   [cols |-> sequence of column names, rows |-> sequence of rows]        *)
(* and a row is a sequence of cells aligned with cols.                     *)
(***************************************************************************)
EXTENDS Integers, Sequences, FiniteSets, TLC

VARIABLES
    op,          \* the entry point of the last call ("none" before any call)
    df_in,       \* the caller's table as it was when the call started
    df_after,    \* the caller's table object when the call has ended
    ret,         \* the table handed back to the caller (NoTable when it raised)
    exc,         \* "none", or the name of the exception that reached the caller
    para_info,   \* self.para_info, loaded at construction
    para_after,  \* self.para_info when the call has ended
    locals       \* the locals of the last call that the claims speak about

vars == <<op, df_in, df_after, ret, exc, para_info, para_after, locals>>

(***************************************************************************)
(* Bounds of the model.                                                    *)
(***************************************************************************)
MaxZoneCols == 2
MaxZoneRows == 1
MaxRows == 2
MaxPara == 2
MaxThkRows == 2

(***************************************************************************)
(* Python str operations.                                                  *)
(***************************************************************************)
Digits == {"0", "1", "2", "3", "4", "5", "6", "7", "8", "9"}

IsDigit(c) == c \in Digits

\* s[i : i + len(pat)] == pat
StartsAt(s, pat, i) ==
    /\ i >= 1
    /\ i + Len(pat) - 1 <= Len(s)
    /\ SubSeq(s, i, i + Len(pat) - 1) = pat

\* Python: pat in s
str_in(pat, s) == \E i \in 1..(Len(s) + 1) : StartsAt(s, pat, i)

RECURSIVE SeqToSet(_)
SeqToSet(s) == IF s = <<>> THEN {} ELSE {Head(s)} \cup SeqToSet(Tail(s))

RECURSIVE SelectList(_, _)
\* [x for x in s if x in keep]
SelectList(s, keep) ==
    IF s = <<>> THEN <<>>
    ELSE IF Head(s) \in keep THEN <<Head(s)>> \o SelectList(Tail(s), keep)
    ELSE SelectList(Tail(s), keep)

\* the sequence f as an explicit tuple (f given by [i \in 1..n |-> e])
Tuple(f) == f \o <<>>

s_AREA == <<"A", "R", "E", "A">>
s_AB_PRS == <<"A", "B", "_", "P", "R", "S">>
s_IL == <<"I", "L">>
s_WAFER_ID == <<"W", "A", "F", "E", "R", "_", "I", "D">>

\* the first index >= j of s that holds no digit (Len(s) + 1 when none)
RECURSIVE EndOfDigits(_, _)
EndOfDigits(s, j) ==
    IF j <= Len(s) /\ IsDigit(s[j]) THEN EndOfDigits(s, j + 1) ELSE j

\* the regular expression AREA\d+ matches s at index i
MatchAreaDigits(s, i) ==
    /\ StartsAt(s, s_AREA, i)
    /\ i + 4 <= Len(s)
    /\ IsDigit(s[i + 4])

\* re.search(r'AREA\d+', col) finds a match
re_search_area(col) == \E i \in 1..Len(col) : MatchAreaDigits(col, i)

\* re.sub(r'_\d+$', '', col)
re_sub_trailing(col) ==
    LET hits == {i \in 1..Len(col) :
                    /\ col[i] = "_"
                    /\ i < Len(col)
                    /\ \A j \in (i + 1)..Len(col) : IsDigit(col[j])}
    IN IF hits = {} THEN col
       ELSE LET i == CHOOSE k \in hits : \A m \in hits : k <= m
            IN SubSeq(col, 1, i - 1)

\* re.sub(r'AREA\d+', '', s), scanning from index i
RECURSIVE re_sub_area(_, _)
re_sub_area(s, i) ==
    IF i > Len(s) THEN <<>>
    ELSE IF MatchAreaDigits(s, i) THEN re_sub_area(s, EndOfDigits(s, i + 4))
    ELSE <<s[i]>> \o re_sub_area(s, i + 1)

\* s.replace('__', '_'), scanning from index i
RECURSIVE str_replace_uu(_, _)
str_replace_uu(s, i) ==
    IF i > Len(s) THEN <<>>
    ELSE IF i < Len(s) /\ s[i] = "_" /\ s[i + 1] = "_"
         THEN <<"_">> \o str_replace_uu(s, i + 2)
    ELSE <<s[i]>> \o str_replace_uu(s, i + 1)

\* metric.split('_')[0]
split_first(s) ==
    LET us == {i \in 1..Len(s) : s[i] = "_"}
    IN IF us = {} THEN s
       ELSE SubSeq(s, 1, (CHOOSE k \in us : \A m \in us : k <= m) - 1)

(***************************************************************************)
(* Tables.                                                                 *)
(***************************************************************************)
NoTable == [cols |-> <<<<"<", "n", "o", "n", "e", ">">>>>, rows |-> <<>>]

NoLocals == [kind |-> "none"]

\* sequences over S of length at most n
RECURSIVE SeqsUpTo(_, _)
SeqsUpTo(S, n) ==
    IF n = 0 THEN {<<>>}
    ELSE LET shorter == SeqsUpTo(S, n - 1)
         IN shorter \cup {Append(q, x) : q \in {p \in shorter : Len(p) = n - 1}, x \in S}

\* sequences without repetition over S, of length at most n
DistinctSeqs(S, n) ==
    {q \in SeqsUpTo(S, n) : \A i, j \in 1..Len(q) : i # j => q[i] # q[j]}

(***************************************************************************)
(* src/area.py                                                             *)
(***************************************************************************)
\* the column names the zone tables are drawn from
n_OTHER == <<"O", "T", "H", "E", "R">>
n_A_AREA1 == <<"A", "_", "A", "R", "E", "A", "1">>
n_A_AREA2 == <<"A", "_", "A", "R", "E", "A", "2">>
n_B_AREA1 == <<"B", "_", "A", "R", "E", "A", "1">>
n_A_AREA1_70 == <<"A", "_", "A", "R", "E", "A", "1", "_", "7", "0">>
n_P1_AREA1_X == <<"P", "1", "_", "A", "R", "E", "A", "1", "_", "X">>
n_P1_AREA1_XY == <<"P", "1", "_", "A", "R", "E", "A", "1", "_", "X", "Y">>
n_P1_AB_PRS_AREA1 ==
    <<"P", "1", "_", "A", "B", "_", "P", "R", "S", "_", "A", "R", "E", "A", "1">>
n_P1_AB_PRS_IL_AREA1 ==
    <<"P", "1", "_", "A", "B", "_", "P", "R", "S", "_", "I", "L", "_", "A", "R", "E", "A", "1">>

ZoneColNames ==
    {s_WAFER_ID, n_OTHER, s_AREA, n_A_AREA1, n_A_AREA2, n_B_AREA1, n_A_AREA1_70,
     n_P1_AREA1_X, n_P1_AREA1_XY, n_P1_AB_PRS_AREA1, n_P1_AB_PRS_IL_AREA1}

ZoneCells == {1, 2}

\* the tables on the columns cs with at most nrows rows
ZoneTables(cs, nrows) ==
    {[cols |-> cs, rows |-> rs] : rs \in SeqsUpTo([1..Len(cs) -> ZoneCells], nrows)}

\* area.py:5   [col for col in df.columns if re.search(r'AREA\d+', col)]
area_col_regex(df) == SelectList(df.cols, {c \in SeqToSet(df.cols) : re_search_area(c)})

\* a column filter that tests for the substring AREA alone
area_col_no_digits(df) ==
    SelectList(df.cols, {c \in SeqToSet(df.cols) : str_in(s_AREA, c)})

area_col(df) == area_col_regex(df)

\* area.py:6   [col for col in df.columns if col not in area_col]
other_col(df) == SelectList(df.cols, SeqToSet(df.cols) \ SeqToSet(area_col(df)))

\* area.py:17-18
derive_metric(col) == str_replace_uu(re_sub_area(re_sub_trailing(col), 1), 1)

\* area.py:14,19   metrics = set(); metrics.append(metric): a set has no append
metrics_append == "AttributeError"

\* area.py:4-67: the outcome of split_zone_data_x(df).  With zone columns the
\* first pass of the loop at line 16 raises at line 19, so lines 21-67 never run.
split_zone_data_x(df) ==
    IF area_col(df) = <<>>
    THEN [exc |-> "none", ret |-> df, df |-> df,
          locals |-> [kind |-> "split", area_col |-> <<>>, metric |-> <<>>]]
    ELSE [exc |-> metrics_append, ret |-> NoTable, df |-> df,
          locals |-> [kind |-> "split", area_col |-> area_col(df),
                      metric |-> derive_metric(area_col(df)[1])]]

\* area.py:24-26
metric_polish(metric) == split_first(metric)

metric_para(metric) ==
    IF Len(metric_polish(metric)) > 0
    THEN SubSeq(metric, Len(metric_polish(metric)) + 2, Len(metric))
    ELSE metric

\* area.py:28-31   the columns of area_col placed in the column set of metric
metric_cols(metric, cols) ==
    IF str_in(s_AB_PRS, metric_para(metric))
    THEN SelectList(cols, {c \in SeqToSet(cols) :
                              /\ str_in(metric_polish(metric), c)
                              /\ str_in(s_AB_PRS, c)
                              /\ ~str_in(s_IL, c)})
    ELSE SelectList(cols, {c \in SeqToSet(cols) :
                              /\ str_in(metric_polish(metric), c)
                              /\ str_in(metric_para(metric), c)})

\* area.py:16-34 with the metric keys collected in the set of line 14: the
\* column set the loop body of line 23 builds for every metric key
metric_column_sets(df) ==
    LET metrics == {derive_metric(c) : c \in SeqToSet(area_col(df))}
    IN [m \in metrics |-> metric_cols(m, area_col(df))]

\* the state before a call: the caller holds the table df, nothing has run
BeforeCall(df, pinfo) ==
    /\ op = "none"
    /\ df_in = df
    /\ df_after = df
    /\ ret = NoTable
    /\ exc = "none"
    /\ para_info = pinfo
    /\ para_after = pinfo
    /\ locals = NoLocals

InitZone ==
    \E cs \in DistinctSeqs(ZoneColNames, MaxZoneCols) :
        \E df \in ZoneTables(cs, MaxZoneRows) : BeforeCall(df, <<>>)

CallSplit ==
    /\ op = "none"
    /\ LET r == split_zone_data_x(df_in)
       IN /\ op' = "split"
          /\ df_after' = r.df
          /\ ret' = r.ret
          /\ exc' = r.exc
          /\ locals' = r.locals
          /\ para_after' = para_info
          /\ UNCHANGED <<df_in, para_info>>

NextZone == CallSplit

SpecZone == InitZone /\ [][NextZone]_vars

\* The loop of area.py:23-34 taken on its own, on the metric keys of lines 16-18.
MetricLoop ==
    /\ op = "none"
    /\ area_col(df_in) # <<>>
    /\ op' = "metric_loop"
    /\ locals' = [kind |-> "metric_loop", area_col |-> area_col(df_in),
                  metric_cols |-> metric_column_sets(df_in)]
    /\ UNCHANGED <<df_in, df_after, ret, exc, para_info, para_after>>

NextMetric == MetricLoop

SpecMetric == InitZone /\ [][NextMetric]_vars

(***************************************************************************)
(* src/rename.py: ColumnRenameMapper.process                               *)
(***************************************************************************)
NaN == <<"NaN">>

UpperAlpha ==
    <<"A", "B", "C", "D", "E", "F", "G", "H", "I", "J", "K", "L", "M",
      "N", "O", "P", "Q", "R", "S", "T", "U", "V", "W", "X", "Y", "Z">>
LowerAlpha ==
    <<"a", "b", "c", "d", "e", "f", "g", "h", "i", "j", "k", "l", "m",
      "n", "o", "p", "q", "r", "s", "t", "u", "v", "w", "x", "y", "z">>

LowerTable ==
    [c \in SeqToSet(UpperAlpha) |->
        LowerAlpha[CHOOSE i \in 1..Len(UpperAlpha) : UpperAlpha[i] = c]]

LowerChar(c) == IF c \in DOMAIN LowerTable THEN LowerTable[c] ELSE c

LowerStr(s) == Tuple([i \in 1..Len(s) |-> LowerChar(s[i])])

\* Series.str.contains(pat, case=False, na=False) on one value
str_contains_nocase(v, pat) == v # NaN /\ str_in(LowerStr(pat), LowerStr(v))

\* Series.str.contains(pat, na=False) on one value
str_contains(v, pat) == v # NaN /\ str_in(pat, v)

s_MODULE == <<"M", "O", "D", "U", "L", "E">>
s_POLISH == <<"P", "O", "L", "I", "S", "H">>
s_PolishA == <<"P", "o", "l", "i", "s", "h", "A">>
s_PolishB == <<"P", "o", "l", "i", "s", "h", "B">>
s_PolishC == <<"P", "o", "l", "i", "s", "h", "C">>
s_PolishD == <<"P", "o", "l", "i", "s", "h", "D">>
s_AB == <<"A", "B">>
s_CD == <<"C", "D">>
s_P1_ == <<"P", "1", "_">>
s_P2_ == <<"P", "2", "_">>
s_F1 == <<"F", "1">>
s_F2 == <<"F", "2">>
s_LOT_ID == <<"L", "O", "T", "_", "I", "D">>
s_PRE_GLB_RAW_VALUE ==
    <<"P", "R", "E", "_", "G", "L", "B", "_", "R", "A", "W", "_", "V", "A", "L", "U", "E">>
s_PST_GLB_RAW_VALUE ==
    <<"P", "S", "T", "_", "G", "L", "B", "_", "R", "A", "W", "_", "V", "A", "L", "U", "E">>

\* rename.py:23-28   self.base_col
base_col ==
    {<<"P", "R", "O", "C", "_", "E", "Q", "P">>, <<"P", "R", "O", "D", "U", "C", "T">>,
     <<"R", "E", "C", "I", "P", "E">>, s_PRE_GLB_RAW_VALUE, s_PST_GLB_RAW_VALUE,
     <<"P", "R", "E", "_", "M", "1", "_", "T", "I", "M", "E">>,
     <<"P", "S", "T", "_", "M", "1", "_", "T", "I", "M", "E">>,
     s_LOT_ID, <<"X", "_", "T", "I", "M", "E">>, <<"L", "O", "T">>}

Modules == {"A", "B", "C", "D"}

\* table helpers
HasCol(t, name) == \E i \in 1..Len(t.cols) : t.cols[i] = name

ColIndex(t, name) ==
    CHOOSE i \in 1..Len(t.cols) :
        t.cols[i] = name /\ \A j \in 1..Len(t.cols) : t.cols[j] = name => i <= j

Cell(t, r, name) == t.rows[r][ColIndex(t, name)]

\* DataFrame.empty
df_empty(t) == Len(t.cols) = 0 \/ Len(t.rows) = 0

\* the indices of 1..n that lie in keep, ascending
RECURSIVE IdxList(_, _)
IdxList(n, keep) ==
    IF n = 0 THEN <<>>
    ELSE IF n \in keep THEN Append(IdxList(n - 1, keep), n)
    ELSE IdxList(n - 1, keep)

\* data[mask]: the rows of t whose index is in mask, in order
take_rows(t, mask) ==
    LET idx == IdxList(Len(t.rows), mask)
    IN [cols |-> t.cols, rows |-> Tuple([k \in 1..Len(idx) |-> t.rows[idx[k]]])]

\* DataFrame.drop(columns=names, errors='ignore')
drop_columns(t, names) ==
    LET idx == IdxList(Len(t.cols), {i \in 1..Len(t.cols) : t.cols[i] \notin names})
    IN [cols |-> Tuple([k \in 1..Len(idx) |-> t.cols[idx[k]]]),
        rows |-> Tuple([r \in 1..Len(t.rows) |->
                           Tuple([k \in 1..Len(idx) |-> t.rows[r][idx[k]]])])]

\* rename.py:75   data["MODULE"].fillna("").astype(str)
module_series(data) ==
    Tuple([r \in 1..Len(data.rows) |->
              IF Cell(data, r, s_MODULE) = NaN THEN <<>> ELSE Cell(data, r, s_MODULE)])

\* rename.py:77-80   module_series.str.contains(marker, case=False, na=False)
module_mask_nocase(series, marker) ==
    {r \in 1..Len(series) : str_contains_nocase(series[r], marker)}

\* the mask of a case-sensitive test
module_mask_case(series, marker) ==
    {r \in 1..Len(series) : str_contains(series[r], marker)}

module_mask(series, marker) == module_mask_nocase(series, marker)

\* rename.py:77-80,88-89   data[mask].copy() with the MODULE column dropped
module_subset(data, mask) == drop_columns(take_rows(data, mask), {s_MODULE})

\* dict(zip(keys, values)): later rows overwrite earlier ones
RECURSIVE dict_zip(_)
dict_zip(rows) ==
    IF rows = <<>> THEN [k \in {} |-> <<>>]
    ELSE LET d == dict_zip(SubSeq(rows, 1, Len(rows) - 1))
             last == rows[Len(rows)]
         IN [k \in DOMAIN d \cup {last.FROM_SRC_FIELD} |->
                IF k = last.FROM_SRC_FIELD THEN last.PARA_NAME_WITH_CODE ELSE d[k]]

\* rename.py:152 / 179   dropna(subset=['FROM_SRC_FIELD'])
dropna_src(rows) == SelectSeq(rows, LAMBDA m : m.FROM_SRC_FIELD # NaN)

\* the same step left out
keep_na_src(rows) == rows

mapping_rows(rows) == dropna_src(rows)

\* rename.py:150-153 / 177-180   the rename dictionary of one group prefix
rename_dict(pinfo, prefix) ==
    dict_zip(mapping_rows(SelectSeq(pinfo,
                 LAMBDA m : str_contains(m.PARA_NAME_WITH_CODE, prefix))))

\* rename.py:155 / 182   df.rename(columns=rename_dict)
rename_cols(t, d) ==
    [cols |-> Tuple([i \in 1..Len(t.cols) |->
                        IF t.cols[i] \in DOMAIN d THEN d[t.cols[i]] ELSE t.cols[i]]),
     rows |-> t.rows]

\* rename.py:146-147 / 173-174   the dictionary is built unless either is empty
dict_built(df, pinfo) == ~(df_empty(df) \/ pinfo = <<>>)

\* rename.py:136-161
rename_columns_polishAC(df, pinfo) ==
    IF dict_built(df, pinfo) THEN rename_cols(df, rename_dict(pinfo, s_P1_)) ELSE df

\* rename.py:163-188
rename_columns_polishBD(df, pinfo) ==
    IF dict_built(df, pinfo) THEN rename_cols(df, rename_dict(pinfo, s_P2_)) ELSE df

s_x == <<"_", "x">>
s_y == <<"_", "y">>

\* the rows of pd.merge(l, r, on=key, how='inner'): left order, then right order
RECURSIVE inner_rows(_, _, _, _, _)
inner_rows(l, r, key, i, j) ==
    IF i > Len(l.rows) THEN <<>>
    ELSE IF j > Len(r.rows) THEN inner_rows(l, r, key, i + 1, 1)
    ELSE (IF Cell(l, i, key) = Cell(r, j, key)
          THEN <<l.rows[i] \o drop_columns(take_rows(r, {j}), {key}).rows[1]>>
          ELSE <<>>) \o inner_rows(l, r, key, i, j + 1)

\* the rows of a left join: a left row without a partner is kept, padded with NaN
RECURSIVE left_rows(_, _, _, _)
left_rows(l, r, key, i) ==
    IF i > Len(l.rows) THEN <<>>
    ELSE LET hit == {j \in 1..Len(r.rows) : Cell(l, i, key) = Cell(r, j, key)}
             one == [cols |-> l.cols, rows |-> <<l.rows[i]>>]
         IN (IF hit = {}
             THEN <<l.rows[i] \o Tuple([k \in 1..(Len(r.cols) - 1) |-> NaN])>>
             ELSE inner_rows(one, r, key, 1, 1)) \o left_rows(l, r, key, i + 1)

\* the columns of pd.merge: the key once, shared names suffixed _x / _y
merge_cols(l, r, key) ==
    LET overlap == (SeqToSet(l.cols) \cap SeqToSet(r.cols)) \ {key}
        rest == drop_columns(r, {key}).cols
    IN Tuple([i \in 1..Len(l.cols) |->
                 IF l.cols[i] \in overlap THEN l.cols[i] \o s_x ELSE l.cols[i]])
       \o Tuple([i \in 1..Len(rest) |->
                 IF rest[i] \in overlap THEN rest[i] \o s_y ELSE rest[i]])

\* rename.py:105-110 / 116-121   pd.merge(l, r, on='WAFER_ID', how='inner')
merge_inner(l, r) ==
    [cols |-> merge_cols(l, r, s_WAFER_ID), rows |-> inner_rows(l, r, s_WAFER_ID, 1, 1)]

\* the same merge with how='left'
merge_left(l, r) ==
    [cols |-> merge_cols(l, r, s_WAFER_ID), rows |-> left_rows(l, r, s_WAFER_ID, 1)]

pd_merge(l, r) == merge_inner(l, r)

\* rename.py:111 / 122   df['POLISH'] = label
with_polish(t, label) ==
    [cols |-> Append(t.cols, s_POLISH),
     rows |-> Tuple([r \in 1..Len(t.rows) |-> Append(t.rows[r], label)])]

\* a table laid out on the columns cols, NaN where it has no such column
reindex_cols(t, cols) ==
    Tuple([r \in 1..Len(t.rows) |->
              Tuple([k \in 1..Len(cols) |->
                        IF HasCol(t, cols[k]) THEN Cell(t, r, cols[k]) ELSE NaN])])

\* rename.py:131   pd.concat(result_dfs, ignore_index=True)
RECURSIVE pd_concat(_)
pd_concat(dfs) ==
    IF Len(dfs) = 1 THEN dfs[1]
    ELSE LET head == pd_concat(SubSeq(dfs, 1, Len(dfs) - 1))
             last == dfs[Len(dfs)]
             cols == head.cols \o SelectList(last.cols, SeqToSet(last.cols) \ SeqToSet(head.cols))
         IN [cols |-> cols, rows |-> reindex_cols(head, cols) \o reindex_cols(last, cols)]

\* pd.DataFrame()
EmptyFrame == [cols |-> <<>>, rows |-> <<>>]

\* BaseMapper.validate_input is not part of the sources: either answer is possible
validate_input(data) == BOOLEAN

\* rename.py:101-134   pairing, labelling and concatenation of the renamed subsets
process_merge(data, mask, sub, ren, built) ==
    LET pairAB == ~df_empty(ren.A) /\ ~df_empty(ren.B)
        pairCD == ~df_empty(ren.C) /\ ~df_empty(ren.D)
        result_dfs ==
            (IF pairAB THEN <<with_polish(pd_merge(ren.A, ren.B), s_AB)>> ELSE <<>>)
            \o (IF pairCD THEN <<with_polish(pd_merge(ren.C, ren.D), s_CD)>> ELSE <<>>)
    IN [exc |-> "none",
        ret |-> IF result_dfs = <<>> THEN EmptyFrame ELSE pd_concat(result_dfs),
        df |-> data,
        locals |-> [kind |-> "process", stage |-> "split",
                    mask |-> mask,
                    subset |-> sub,
                    renamed |-> ren,
                    pairs |-> {x \in {"AB", "CD"} :
                                  (x = "AB" /\ pairAB) \/ (x = "CD" /\ pairCD)},
                    P1_built |-> built.A \/ built.C,
                    P2_built |-> built.B \/ built.D,
                    P1_dict |-> built.P1_dict,
                    P2_dict |-> built.P2_dict]]

\* rename.py:87-99   the four subsets, renamed, base columns dropped from B and D
process_rename(data, pinfo, mask, sub) ==
    process_merge(data, mask, sub,
        [A |-> rename_columns_polishAC(sub.A, pinfo),
         B |-> drop_columns(rename_columns_polishBD(sub.B, pinfo), base_col),
         C |-> rename_columns_polishAC(sub.C, pinfo),
         D |-> drop_columns(rename_columns_polishBD(sub.D, pinfo), base_col)],
        [A |-> dict_built(sub.A, pinfo), B |-> dict_built(sub.B, pinfo),
         C |-> dict_built(sub.C, pinfo), D |-> dict_built(sub.D, pinfo),
         P1_dict |-> rename_dict(pinfo, s_P1_), P2_dict |-> rename_dict(pinfo, s_P2_)])

\* rename.py:74-89   the masks of the four markers and the subsets they select
process_split(data, pinfo, mask) ==
    process_rename(data, pinfo, mask,
        [A |-> module_subset(data, mask.A), B |-> module_subset(data, mask.B),
         C |-> module_subset(data, mask.C), D |-> module_subset(data, mask.D)])

process_masks(series) ==
    [A |-> module_mask(series, s_PolishA), B |-> module_mask(series, s_PolishB),
     C |-> module_mask(series, s_PolishC), D |-> module_mask(series, s_PolishD)]

\* rename.py:57-134: the outcome of process(data) when validate_input answers valid
process(data, pinfo, valid) ==
    IF ~valid \/ ~HasCol(data, s_MODULE)
    THEN [exc |-> "none", ret |-> data, df |-> data,
          locals |-> [kind |-> "process", stage |-> "skipped"]]
    ELSE process_split(data, pinfo, process_masks(module_series(data)))

\* the inputs of process
t_PolishA == s_PolishA
t_polishb == <<"p", "o", "l", "i", "s", "h", "b">>
t_PolishC == <<"x", "P", "o", "l", "i", "s", "h", "C">>
t_POLISHD == <<"P", "O", "L", "I", "S", "H", "D">>
t_PolishAB == s_PolishA \o <<"/">> \o s_PolishB
t_Polish == <<"P", "o", "l", "i", "s", "h">>

ModuleTags == {t_PolishA, t_polishb, t_PolishC, t_POLISHD, t_PolishAB, t_Polish, NaN}

w1 == <<"w", "1">>
w2 == <<"w", "2">>
Wafers == {w1, w2}

ProcessShapes ==
    {<<s_WAFER_ID, s_MODULE, s_F1, s_LOT_ID>>,
     <<s_MODULE, s_LOT_ID, s_WAFER_ID>>,
     <<s_WAFER_ID, s_F1, s_LOT_ID>>}

CellFor(col, tag, wafer) ==
    CASE col = s_WAFER_ID -> wafer
      [] col = s_MODULE -> tag
      [] col = s_LOT_ID -> <<"L">>
      [] OTHER -> <<"5">>

ProcessTable(cs, rs) ==
    [cols |-> cs,
     rows |-> Tuple([r \in 1..Len(rs) |->
                        Tuple([k \in 1..Len(cs) |-> CellFor(cs[k], rs[r][1], rs[r][2])])])]

ProcessTables(n) ==
    {ProcessTable(cs, rs) : cs \in ProcessShapes, rs \in SeqsUpTo(ModuleTags \X Wafers, n)}

p_P1_X == <<"P", "1", "_", "X">>
p_P1_Z == <<"P", "1", "_", "Z">>
p_P2_Y == <<"P", "2", "_", "Y">>
p_P1_P2_W == <<"P", "1", "_", "P", "2", "_", "W">>
p_X == <<"X">>

ParaNames == {p_P1_X, p_P1_Z, p_P2_Y, p_P1_P2_W, p_X, NaN}
SrcFields == {s_F1, s_F2, NaN}

ParaRows == [PARA_NAME_WITH_CODE : ParaNames, FROM_SRC_FIELD : SrcFields]

ProcessParaInfos ==
    {<<>>,
     <<[PARA_NAME_WITH_CODE |-> p_P1_X, FROM_SRC_FIELD |-> s_F1]>>,
     <<[PARA_NAME_WITH_CODE |-> p_P1_X, FROM_SRC_FIELD |-> s_F1],
       [PARA_NAME_WITH_CODE |-> p_P2_Y, FROM_SRC_FIELD |-> s_F1]>>}

ResolverTables ==
    {ProcessTable(<<s_WAFER_ID, s_MODULE, s_F1, s_LOT_ID>>, <<<<t_PolishA, w1>>, <<t_polishb, w1>>>>),
     ProcessTable(<<s_WAFER_ID, s_MODULE, s_F1, s_LOT_ID>>, <<<<t_PolishC, w1>>>>)}

InitProcess ==
    \E data \in ProcessTables(MaxRows), pinfo \in ProcessParaInfos : BeforeCall(data, pinfo)

InitResolver ==
    \E data \in ResolverTables, pinfo \in SeqsUpTo(ParaRows, MaxPara) : BeforeCall(data, pinfo)

CallProcess ==
    /\ op = "none"
    /\ \E valid \in validate_input(df_in) :
          \E r \in {process(df_in, para_info, valid)} :
             /\ op' = "process"
             /\ df_after' = r.df
             /\ ret' = r.ret
             /\ exc' = r.exc
             /\ locals' = r.locals
             /\ para_after' = para_info
             /\ UNCHANGED <<df_in, para_info>>

NextProcess == CallProcess

SpecProcess == InitProcess /\ [][NextProcess]_vars

SpecResolver == InitResolver /\ [][NextProcess]_vars

(***************************************************************************)
(* src/rename.py: ColumnRenameMapper._cal_thk_from_raw_value               *)
(***************************************************************************)
s_PRE_VALUE_LIST == <<"P", "R", "E", "_", "V", "A", "L", "U", "E", "_", "L", "I", "S", "T">>
s_PST_VALUE_LIST == <<"P", "S", "T", "_", "V", "A", "L", "U", "E", "_", "L", "I", "S", "T">>
s_PRE_GLB_STI_THK_70000 ==
    <<"P", "R", "E", "_", "G", "L", "B", "_", "S", "T", "I", "_", "T", "H", "K", "_", "7", "0", "0", "0", "0">>
s_PST_GLB_CMP_THK_80000 ==
    <<"P", "S", "T", "_", "G", "L", "B", "_", "C", "M", "P", "_", "T", "H", "K", "_", "8", "0", "0", "0", "0">>

\* str.split(','): the tokens of s from index i on, tok being the token in progress
RECURSIVE split_from(_, _, _)
split_from(s, i, tok) ==
    IF i > Len(s) THEN <<tok>>
    ELSE IF s[i] = "," THEN <<tok>> \o split_from(s, i + 1, <<>>)
    ELSE split_from(s, i + 1, Append(tok, s[i]))

\* rename.py:204 / 207   fillna('').str.split(',') on one value
fillna_split(v) == IF v = NaN THEN <<<<>>>> ELSE split_from(v, 1, <<>>)

DigitSeq == <<"0", "1", "2", "3", "4", "5", "6", "7", "8", "9">>

DigitVal(c) == (CHOOSE n \in 1..Len(DigitSeq) : DigitSeq[n] = c) - 1

RECURSIVE DigitsVal(_)
DigitsVal(ds) ==
    IF ds = <<>> THEN 0 ELSE 10 * DigitsVal(SubSeq(ds, 1, Len(ds) - 1)) + DigitVal(ds[Len(ds)])

\* float(tok) succeeds: digits with at most one point and a digit on a side of it
float_ok(tok) ==
    LET dots == {i \in 1..Len(tok) : tok[i] = "."}
    IN /\ \A i \in 1..Len(tok) : IsDigit(tok[i]) \/ tok[i] = "."
       /\ Cardinality(dots) <= 1
       /\ \E i \in 1..Len(tok) : IsDigit(tok[i])

\* float(tok) in tenths (the raw values carry at most one decimal)
float_val(tok) ==
    LET dots == {i \in 1..Len(tok) : tok[i] = "."}
        d == IF dots = {} THEN Len(tok) + 1 ELSE CHOOSE i \in dots : TRUE
    IN 10 * DigitsVal(SubSeq(tok, 1, d - 1))
       + (IF d < Len(tok) THEN DigitVal(tok[d + 1]) ELSE 0)

\* the tokens of one list the comprehension [float(i) for i in x if i != ''] parses
nonempty_tokens(x) == SelectSeq(x, LAMBDA tok : tok # <<>>)

\* rename.py:205 / 208   the comprehension raises ValueError on some row
float_raises(lists) ==
    \E r \in 1..Len(lists) : \E k \in 1..Len(nonempty_tokens(lists[r])) :
        ~float_ok(nonempty_tokens(lists[r])[k])

\* rename.py:205 / 208   [float(i) for i in x if i != ''] on every row
float_lists(lists) ==
    Tuple([r \in 1..Len(lists) |->
              Tuple([k \in 1..Len(nonempty_tokens(lists[r])) |->
                        float_val(nonempty_tokens(lists[r])[k])])])

\* df[name] = values: the column is overwritten in place, or appended
set_column(t, name, values) ==
    IF HasCol(t, name)
    THEN [cols |-> t.cols,
          rows |-> Tuple([r \in 1..Len(t.rows) |->
                             Tuple([k \in 1..Len(t.cols) |->
                                       IF k = ColIndex(t, name) THEN values[r]
                                       ELSE t.rows[r][k]])])]
    ELSE [cols |-> Append(t.cols, name),
          rows |-> Tuple([r \in 1..Len(t.rows) |-> Append(t.rows[r], values[r])])]

\* df[name].fillna('').str.split(',') on every row
split_column(t, name) == Tuple([r \in 1..Len(t.rows) |-> fillna_split(Cell(t, r, name))])

\* rename.py:1-7,210   np is used and never imported: the lambda of line 210
\* raises on the first row it is applied to
np_lookup == "NameError"

\* rename.py:216-218   except Exception: log and return df, the object the caller
\* passed, with the columns assigned so far
thk_caught(df, error) ==
    [exc |-> "none", ret |-> df, df |-> df, locals |-> [kind |-> "thk", caught |-> error]]

\* rename.py:210   PRE_GLB_STI_THK_70000 = PRE_VALUE_LIST.apply(lambda x: np.mean(x) ...)
thk_means(df) == thk_caught(df, np_lookup)

\* rename.py:208
thk_pst_floats(df, lists) ==
    IF float_raises(lists) THEN thk_caught(df, "ValueError")
    ELSE thk_means(set_column(df, s_PST_VALUE_LIST, float_lists(lists)))

\* rename.py:207
thk_pst_split(df) ==
    IF ~HasCol(df, s_PST_GLB_RAW_VALUE) THEN thk_caught(df, "KeyError")
    ELSE thk_pst_floats(set_column(df, s_PST_VALUE_LIST, split_column(df, s_PST_GLB_RAW_VALUE)),
                        split_column(df, s_PST_GLB_RAW_VALUE))

\* rename.py:205
thk_pre_floats(df, lists) ==
    IF float_raises(lists) THEN thk_caught(df, "ValueError")
    ELSE thk_pst_split(set_column(df, s_PRE_VALUE_LIST, float_lists(lists)))

\* rename.py:204
thk_pre_split(df) ==
    IF ~HasCol(df, s_PRE_GLB_RAW_VALUE) THEN thk_caught(df, "KeyError")
    ELSE thk_pre_floats(set_column(df, s_PRE_VALUE_LIST, split_column(df, s_PRE_GLB_RAW_VALUE)),
                        split_column(df, s_PRE_GLB_RAW_VALUE))

\* rename.py:190-218: the outcome of _cal_thk_from_raw_value(df); field df is the
\* caller's table when the call has ended
cal_thk_from_raw_value(df) ==
    IF df_empty(df)
    THEN [exc |-> "none", ret |-> df, df |-> df, locals |-> [kind |-> "thk", caught |-> "none"]]
    ELSE thk_pre_split(df)

\* the inputs of _cal_thk_from_raw_value
r_123 == <<"1", ".", "0", ",", "2", ".", "0", ",", "3", ".", "0">>
r_empty == <<>>
r_1x3 == <<"1", ".", "0", ",", "x", ",", "3", ".", "0">>
r_25 == <<"2", ".", "5", ",">>

RawValues == {r_123, r_empty, r_1x3, r_25, NaN}

ThkShapes ==
    {<<s_WAFER_ID, s_PRE_GLB_RAW_VALUE, s_PST_GLB_RAW_VALUE>>,
     <<s_PRE_GLB_RAW_VALUE, s_WAFER_ID>>}

ThkCell(col, pre, pst) ==
    CASE col = s_PRE_GLB_RAW_VALUE -> pre
      [] col = s_PST_GLB_RAW_VALUE -> pst
      [] OTHER -> w1

ThkTable(cs, rs) ==
    [cols |-> cs,
     rows |-> Tuple([r \in 1..Len(rs) |->
                        Tuple([k \in 1..Len(cs) |-> ThkCell(cs[k], rs[r][1], rs[r][2])])])]

ThkTables(n) ==
    {ThkTable(cs, rs) : cs \in ThkShapes, rs \in SeqsUpTo(RawValues \X RawValues, n)}

InitThk == \E df \in ThkTables(MaxThkRows) : BeforeCall(df, <<>>)

CallThk ==
    /\ op = "none"
    /\ \E r \in {cal_thk_from_raw_value(df_in)} :
          /\ op' = "thk"
          /\ df_after' = r.df
          /\ ret' = r.ret
          /\ exc' = r.exc
          /\ locals' = r.locals
          /\ para_after' = para_info
          /\ UNCHANGED <<df_in, para_info>>

NextThk == CallThk

SpecThk == InitThk /\ [][NextThk]_vars

(***************************************************************************)
(* Properties.                                                             *)
(***************************************************************************)
ColSet(t) == SeqToSet(t.cols)

RowIdx(t) == 1..Len(t.rows)

\* the names of ZoneColNames that hold AREA followed by a digit
ZoneIndexedNames ==
    {n_A_AREA1, n_A_AREA2, n_B_AREA1, n_A_AREA1_70, n_P1_AREA1_X, n_P1_AREA1_XY,
     n_P1_AB_PRS_AREA1, n_P1_AB_PRS_IL_AREA1}

IndicatorName(k) == Append(s_AREA, DigitSeq[k + 1])

\* C1: for a table with WAFER_ID and at least one zone-indexed column,
\* split_zone_data_x returns a table in which, for every row and every k in
\* 1..8, column AREA<k> is 1 exactly when the row's AREA value is k, else 0.
C1_IndicatorsOneHot ==
    (/\ op = "split"
     /\ s_WAFER_ID \in ColSet(df_in)
     /\ ColSet(df_in) \cap ZoneIndexedNames # {})
    => /\ exc = "none"
       /\ HasCol(ret, s_AREA)
       /\ \A k \in 1..8 : HasCol(ret, IndicatorName(k))
       /\ \A r \in RowIdx(ret) : \A k \in 1..8 :
             Cell(ret, r, IndicatorName(k)) = IF Cell(ret, r, s_AREA) = k THEN 1 ELSE 0

\* C2: for a table none of whose column names holds AREA followed by digits,
\* split_zone_data_x returns the input table itself: same columns, same rows,
\* same values, and the caller's table is as it was.
C2_NoZoneColumnsIdentity ==
    (op = "split" /\ ColSet(df_in) \cap ZoneIndexedNames = {})
    => /\ exc = "none"
       /\ ret = df_in
       /\ df_after = df_in

\* a call on a table with rows and a column named AREA (no digits) that came back
C2_Witness ==
    /\ op = "split"
    /\ ColSet(df_in) \cap ZoneIndexedNames = {}
    /\ s_AREA \in ColSet(df_in)
    /\ s_WAFER_ID \in ColSet(df_in)
    /\ Len(df_in.rows) >= 1
    /\ ret = df_in

\* C7: for a table with a WAFER_ID column split_zone_data_x returns a table; the
\* only exception that reaches the caller is the duplicate (WAFER_ID, AREA)
\* conflict of the combine step (pandas InvalidIndexError).
C7_OnlyReshapeConflictRaises ==
    (op = "split" /\ s_WAFER_ID \in ColSet(df_in))
    => exc \in {"none", "InvalidIndexError"}

WaferSet(t) == {Cell(t, r, s_WAFER_ID) : r \in RowIdx(t)}

LabelledWafers(t, label) ==
    {Cell(t, r, s_WAFER_ID) : r \in {q \in RowIdx(t) : Cell(t, q, s_POLISH) = label}}

\* C3: whenever the renamed PolishA and PolishB subsets are both non-empty, the
\* WAFER_ID values of the rows of the result labelled POLISH = "AB" are exactly
\* the wafers present in both subsets; likewise PolishC, PolishD and "CD".
C3_PairingIsIntersection ==
    (op = "process" /\ locals.stage = "split")
    => /\ (~df_empty(locals.renamed.A) /\ ~df_empty(locals.renamed.B))
          => LabelledWafers(ret, s_AB)
             = WaferSet(locals.renamed.A) \cap WaferSet(locals.renamed.B)
       /\ (~df_empty(locals.renamed.C) /\ ~df_empty(locals.renamed.D))
          => LabelledWafers(ret, s_CD)
             = WaferSet(locals.renamed.C) \cap WaferSet(locals.renamed.D)

\* an AB pairing in which one wafer is in both subsets and another in one only
C3_Witness ==
    /\ op = "process"
    /\ locals.stage = "split"
    /\ "AB" \in locals.pairs
    /\ WaferSet(locals.renamed.A) # WaferSet(locals.renamed.B)
    /\ WaferSet(locals.renamed.A) \cap WaferSet(locals.renamed.B) # {}
    /\ LabelledWafers(ret, s_AB) = WaferSet(locals.renamed.A) \cap WaferSet(locals.renamed.B)

\* the markers each tag of ModuleTags holds, whatever the case of its letters
TagMarkers(tag) ==
    CASE tag = t_PolishA -> {"A"}
      [] tag = t_polishb -> {"B"}
      [] tag = t_PolishC -> {"C"}
      [] tag = t_POLISHD -> {"D"}
      [] tag = t_PolishAB -> {"A", "B"}
      [] OTHER -> {}

\* C10: a row is in module subset X exactly when its MODULE value (missing read
\* as the empty string) holds marker PolishX, whatever the case; a row with
\* several markers is in every matching subset, a row with none is in none.
C10_IndependentSubstringMembership ==
    (op = "process" /\ locals.stage = "split")
    => \A X \in Modules :
          /\ \A r \in RowIdx(df_in) :
                r \in locals.mask[X] <=> X \in TagMarkers(Cell(df_in, r, s_MODULE))
          /\ Len(locals.subset[X].rows) = Cardinality(locals.mask[X])

\* a row in two subsets, a lower-case tag matched, and a row in no subset
C10_Witness ==
    /\ op = "process"
    /\ locals.stage = "split"
    /\ \E r \in RowIdx(df_in) : r \in locals.mask.A \cap locals.mask.B
    /\ \E r \in RowIdx(df_in) :
          \/ Cell(df_in, r, s_MODULE) = t_polishb /\ r \in locals.mask.B
          \/ Cell(df_in, r, s_MODULE) = NaN /\ \A X \in Modules : r \notin locals.mask[X]

P1Names == {p_P1_X, p_P1_Z, p_P1_P2_W}
P2Names == {p_P2_Y, p_P1_P2_W}

\* the rows of the mapping table tagged with one group that carry a source field
TaggedRows(pinfo, names) ==
    {i \in 1..Len(pinfo) :
        pinfo[i].PARA_NAME_WITH_CODE \in names /\ pinfo[i].FROM_SRC_FIELD # NaN}

SourceFields(pinfo, rows) == {pinfo[i].FROM_SRC_FIELD : i \in rows}

DisjointTags(pinfo) ==
    \A i \in 1..Len(pinfo) : pinfo[i].PARA_NAME_WITH_CODE \notin P1Names \cap P2Names

\* C4 as stated: with disjoint tags the P1 dictionary has one entry per row
\* tagged P1 and the P2 dictionary one per row tagged P2, a row with a null
\* FROM_SRC_FIELD adding none.
C4_OneEntryPerRow ==
    (op = "process" /\ locals.stage = "split" /\ DisjointTags(para_info))
    => /\ locals.P1_built =>
             Cardinality(DOMAIN locals.P1_dict) = Cardinality(TaggedRows(para_info, P1Names))
       /\ locals.P2_built =>
             Cardinality(DOMAIN locals.P2_dict) = Cardinality(TaggedRows(para_info, P2Names))

\* C4 amended: with disjoint tags a rename dictionary that is built has one
\* entry per distinct non-null FROM_SRC_FIELD among the rows of its group (N
\* entries for N rows only when their source fields differ), a row with a null
\* FROM_SRC_FIELD adding none.
C4_OneEntryPerSourceField ==
    (op = "process" /\ locals.stage = "split" /\ DisjointTags(para_info))
    => /\ locals.P1_built =>
             DOMAIN locals.P1_dict = SourceFields(para_info, TaggedRows(para_info, P1Names))
       /\ locals.P2_built =>
             DOMAIN locals.P2_dict = SourceFields(para_info, TaggedRows(para_info, P2Names))

\* two P1 rows naming the same source field, and both dictionaries built
C4_Witness ==
    /\ op = "process"
    /\ locals.stage = "split"
    /\ DisjointTags(para_info)
    /\ locals.P1_built
    /\ locals.P2_built
    /\ Cardinality(TaggedRows(para_info, P1Names)) = 2
    /\ Cardinality(DOMAIN locals.P1_dict) = 1

WellFormedRaw == {r_123, r_empty, r_25}

\* the mean of the tokens of a well-formed raw value, as pandas prints it
ExpectedMean(v) ==
    CASE v = r_123 -> <<"2", ".", "0">>
      [] v = r_25 -> <<"2", ".", "5">>
      [] OTHER -> NaN

BothRawColumns(t) == HasCol(t, s_PRE_GLB_RAW_VALUE) /\ HasCol(t, s_PST_GLB_RAW_VALUE)

\* C5: for a non-empty table whose raw-value fields are comma-separated lists of
\* well-formed numbers, the returned table holds in PRE_GLB_STI_THK_70000 and
\* PST_GLB_CMP_THK_80000 the mean of the tokens of the respective field, and a
\* missing value for an empty field.
C5_DerivedMeans ==
    (/\ op = "thk"
     /\ ~df_empty(df_in)
     /\ BothRawColumns(df_in)
     /\ \A r \in RowIdx(df_in) :
           /\ Cell(df_in, r, s_PRE_GLB_RAW_VALUE) \in WellFormedRaw
           /\ Cell(df_in, r, s_PST_GLB_RAW_VALUE) \in WellFormedRaw)
    => /\ exc = "none"
       /\ HasCol(ret, s_PRE_GLB_STI_THK_70000)
       /\ HasCol(ret, s_PST_GLB_CMP_THK_80000)
       /\ \A r \in RowIdx(df_in) :
             /\ Cell(ret, r, s_PRE_GLB_STI_THK_70000)
                = ExpectedMean(Cell(df_in, r, s_PRE_GLB_RAW_VALUE))
             /\ Cell(ret, r, s_PST_GLB_CMP_THK_80000)
                = ExpectedMean(Cell(df_in, r, s_PST_GLB_RAW_VALUE))

\* C6: when a token of a raw-value field is no number, the call does not raise
\* and returns the table as it was given: the same columns and values, neither
\* derived nor intermediate columns.
C6_MalformedReturnsInputUnmodified ==
    (/\ op = "thk"
     /\ BothRawColumns(df_in)
     /\ \E r \in RowIdx(df_in) :
           \/ Cell(df_in, r, s_PRE_GLB_RAW_VALUE) = r_1x3
           \/ Cell(df_in, r, s_PST_GLB_RAW_VALUE) = r_1x3)
    => /\ exc = "none"
       /\ ret.cols = df_in.cols
       /\ ret.rows = df_in.rows

\* C8: after a call of an entry point, on its success or on an error path, the
\* caller's table has the columns and values it had before, and self.para_info
\* is unchanged.
C8_InputNotMutated ==
    op # "none"
    => /\ df_after.cols = df_in.cols
       /\ df_after.rows = df_in.rows
       /\ para_after = para_info
====
